---------------------------- MODULE Spec2Model ----------------------------
(***************************************************************************)
(* Model of the CDK application of the web search plugin: the entry point  *)
(* (bin), ConfigLoader, AgentStack and PluginStack.createQBusinessPlugin,  *)
(* which loads web-search-spec.yaml, rewrites servers, securitySchemes and *)
(* the security of every operation, writes web-search-spec-updated.yaml    *)
(* and registers the plugin with the dumped schema as payload.             *)
(*                                                                         *)
(* One run of the model is one execution of the entry point (one           *)
(* `cdk synth`): process memory is fresh in every run, the file system     *)
(* (config.yaml, the input schema, the output schema) persists.            *)
(***************************************************************************)
EXTENDS Naturals, Sequences, FiniteSets, TLC

(***************************************************************************)
(* JavaScript values as yaml.load produces them.  Every value is a record  *)
(* of the same shape: k is the kind, s the text of a string, items the     *)
(* elements of an array, pairs the own enumerable named properties in      *)
(* insertion order (of an object, or set on an array after the fact).      *)
(***************************************************************************)
KV(key, val) == [key |-> key, val |-> val]

Undefined == [k |-> "undefined", s |-> "", items |-> <<>>, pairs |-> <<>>]

Null == [k |-> "null", s |-> "", items |-> <<>>, pairs |-> <<>>]

Str(s) == [k |-> "str", s |-> s, items |-> <<>>, pairs |-> <<>>]

Arr(items) == [k |-> "seq", s |-> "", items |-> items, pairs |-> <<>>]

Obj(pairs) == [k |-> "map", s |-> "", items |-> <<>>, pairs |-> pairs]

IsObject(v) == v.k \in {"map", "seq"}

Keys(pairs) == [i \in 1..Len(pairs) |-> pairs[i].key]

HasKey(pairs, key) == \E i \in 1..Len(pairs) : pairs[i].key = key

IndexOf(pairs, key) == CHOOSE i \in 1..Len(pairs) : pairs[i].key = key

\* obj[key] / obj.key on a value that is not null or undefined.
GetProp(v, key) ==
    IF IsObject(v) /\ HasKey(v.pairs, key)
    THEN v.pairs[IndexOf(v.pairs, key)].val
    ELSE Undefined

\* obj.key = val throws a TypeError on null and undefined, and (the class body
\* is strict mode code) on a primitive string.
CanSetProp(v) == IsObject(v)

\* obj.key = val: an existing property keeps its place, a new one is added last.
PutPair(pairs, key, val) ==
    IF HasKey(pairs, key)
    THEN [pairs EXCEPT ![IndexOf(pairs, key)] = KV(key, val)]
    ELSE Append(pairs, KV(key, val))

SetProp(v, key, val) == [v EXCEPT !.pairs = PutPair(v.pairs, key, val)]

\* The keys a for-in loop visits: none for null and undefined.
ForInKeys(v) == IF IsObject(v) THEN Keys(v.pairs) ELSE <<>>

(***************************************************************************)
(* yaml.dump and yaml.load.  The text of a YAML file is a sequence of      *)
(* tokens: a scalar, a null, a mapping key, and the opening and closing of *)
(* a block mapping or sequence.                                            *)
(***************************************************************************)
Tok(t, s) == [t |-> t, s |-> s]

RECURSIVE dump(_), dumpItems(_), dumpPairs(_)

\* A named property set on an array is not an element: dump does not write it.
dump(v) ==
    CASE v.k = "str" -> <<Tok("scalar", v.s)>>
      [] v.k = "null" -> <<Tok("null", "")>>
      [] v.k = "seq" -> <<Tok("[", "")>> \o dumpItems(v.items) \o <<Tok("]", "")>>
      [] v.k = "map" -> <<Tok("{", "")>> \o dumpPairs(v.pairs) \o <<Tok("}", "")>>

dumpItems(items) ==
    IF items = <<>> THEN <<>>
    ELSE dump(Head(items)) \o dumpItems(Tail(items))

dumpPairs(pairs) ==
    IF pairs = <<>> THEN <<>>
    ELSE <<Tok("key", Head(pairs).key)>> \o dump(Head(pairs).val)
             \o dumpPairs(Tail(pairs))

ParseError == [ok |-> FALSE, val |-> Undefined, next |-> 0]

Parsed(val, next) == [ok |-> TRUE, val |-> val, next |-> next]

RECURSIVE parseNode(_, _), parseItems(_, _, _), parsePairs(_, _, _)

parseNode(ts, i) ==
    IF i > Len(ts) THEN ParseError
    ELSE CASE ts[i].t = "scalar" -> Parsed(Str(ts[i].s), i + 1)
           [] ts[i].t = "null" -> Parsed(Null, i + 1)
           [] ts[i].t = "[" -> parseItems(ts, i + 1, <<>>)
           [] ts[i].t = "{" -> parsePairs(ts, i + 1, <<>>)
           [] OTHER -> ParseError

parseItems(ts, i, acc) ==
    IF i > Len(ts) THEN ParseError
    ELSE IF ts[i].t = "]" THEN Parsed(Arr(acc), i + 1)
    ELSE LET r == parseNode(ts, i)
         IN  IF r.ok THEN parseItems(ts, r.next, Append(acc, r.val))
             ELSE ParseError

\* A duplicated mapping key is a YAMLException.
parsePairs(ts, i, acc) ==
    IF i > Len(ts) THEN ParseError
    ELSE IF ts[i].t = "}" THEN Parsed(Obj(acc), i + 1)
    ELSE IF ts[i].t # "key" \/ HasKey(acc, ts[i].s) THEN ParseError
    ELSE LET r == parseNode(ts, i + 1)
         IN  IF r.ok THEN parsePairs(ts, r.next, Append(acc, KV(ts[i].s, r.val)))
             ELSE ParseError

\* yaml.load: an empty document loads as undefined; text left over after the
\* document, or a document cut short, is a YAMLException.
load(text) ==
    IF text = <<>> THEN Parsed(Undefined, 1)
    ELSE LET r == parseNode(text, 1)
         IN  IF r.ok /\ r.next = Len(text) + 1 THEN r ELSE ParseError

(***************************************************************************)
(* config.yaml as ConfigLoader returns it (AppConfig).  Every value is a   *)
(* string as types.ts declares it; the optional https section is present   *)
(* or not.                                                                 *)
(***************************************************************************)
NoHttps == [present |-> FALSE, certificateArn |-> "", fullyQualifiedUrl |-> ""]

Https(arn, fqdn) ==
    [present |-> TRUE, certificateArn |-> arn, fullyQualifiedUrl |-> fqdn]

PluginConfig(tokenUrl, authorizationUrl, scopes) ==
    [tokenUrl |-> tokenUrl, authorizationUrl |-> authorizationUrl, scopes |-> scopes]

AppConfig(projectName, applicationId, https, plugin) ==
    [projectName |-> projectName, qbusiness |-> [applicationId |-> applicationId],
     https |-> https, plugin |-> plugin]

\* A deployment behind a certificate, one scope.
ConfigHttps ==
    AppConfig("websearch", "app-1", Https("arn:cert", "agent.example.com"),
              PluginConfig("https://idp.example.com/token",
                           "https://idp.example.com/authorize", "websearch.read"))

\* No https section; plugin.scopes holds two space-separated words.
ConfigHttp ==
    AppConfig("websearch", "app-1", NoHttps,
              PluginConfig("https://login.example.org/oauth2/token",
                           "https://login.example.org/oauth2/authorize",
                           "openid websearch/read"))

\* The plugin section's values are empty strings.
ConfigEmpty ==
    AppConfig("websearch", "app-1", Https("arn:cert", "agent.example.com"),
              PluginConfig("", "", ""))

Configs == {ConfigHttps, ConfigHttp, ConfigEmpty}

\* lb.loadBalancerDnsName
LoadBalancerDnsName == "alb-1.elb.amazonaws.com"

(***************************************************************************)
(* The contents web-search-spec.yaml may have.  Three families around one  *)
(* base document, one per part of the document that createQBusinessPlugin  *)
(* touches: servers, components and paths.                                 *)
(***************************************************************************)
Server(url, description) ==
    Obj(<<KV("url", Str(url)), KV("description", Str(description))>>)

\* A security requirement {scheme: [scopes...]}.
Requirement(scheme, scopes) == Obj(<<KV(scheme, Arr(scopes))>>)

QueryParameter ==
    Obj(<<KV("name", Str("query")), KV("in", Str("query"))>>)

Responses == Obj(<<KV("200", Obj(<<KV("description", Str("OK"))>>))>>)

Operation(operationId, extra) ==
    Obj(<<KV("operationId", Str(operationId))>> \o extra
          \o <<KV("responses", Responses)>>)

ServersChoices ==
    { <<>>,
      <<KV("servers", Arr(<<>>))>>,
      <<KV("servers", Arr(<<Server("http://localhost:8000", "local")>>))>>,
      <<KV("servers", Arr(<<Server("http://localhost:8000", "local"),
                            Server("https://old.example.com", "old")>>))>> }

Schemas == KV("schemas", Obj(<<KV("SearchResult", Obj(<<KV("type", Str("object"))>>))>>))

OldOauth2 ==
    Obj(<<KV("type", Str("oauth2")),
          KV("flows", Obj(<<KV("authorizationCode",
              Obj(<<KV("authorizationUrl", Str("https://old.example.com/authorize")),
                    KV("tokenUrl", Str("https://old.example.com/token")),
                    KV("scopes", Obj(<<KV("old.read", Str("old")),
                                       KV("old.write", Str("old"))>>))>>))>>))>>)

ApiKeyScheme ==
    Obj(<<KV("type", Str("apiKey")), KV("name", Str("x-api-key")),
          KV("in", Str("header"))>>)

ComponentsChoices ==
    { <<>>,
      <<KV("components", Null)>>,
      <<KV("components", Obj(<<Schemas>>))>>,
      <<KV("components", Obj(<<KV("securitySchemes",
                                   Obj(<<KV("apiKey", ApiKeyScheme)>>)), Schemas>>))>>,
      <<KV("components", Obj(<<Schemas, KV("securitySchemes",
                                   Obj(<<KV("oauth2", OldOauth2),
                                         KV("apiKey", ApiKeyScheme)>>))>>))>> }

PathsChoices ==
    { <<>>,
      <<KV("paths", Null)>>,
      <<KV("paths", Obj(<<>>))>>,
      \* one operation without security
      <<KV("paths", Obj(<<KV("/search", Obj(<<KV("get", Operation("search", <<>>))>>))>>))>>,
      \* path-level parameters, and operations with a prior security value
      <<KV("paths", Obj(<<
          KV("/search", Obj(<<
              KV("parameters", Arr(<<QueryParameter>>)),
              KV("get", Operation("search",
                  <<KV("security", Arr(<<Requirement("apiKey", <<>>)>>))>>)),
              KV("post", Operation("searchPost", <<KV("security", Arr(<<>>))>>))>>)),
          KV("/crawl", Obj(<<
              KV("post", Operation("crawl",
                  <<KV("security", Arr(<<Requirement("oauth2", <<Str("old.read")>>),
                                         Requirement("apiKey", <<>>)>>))>>))>>)),
          KV("/extract", Obj(<<
              KV("post", Operation("extract",
                  <<KV("security", Arr(<<Requirement("oauth2",
                      <<Str("old.read"), Str("old.write")>>)>>))>>))>>))>>))>>,
      \* a path item without content
      <<KV("paths", Obj(<<KV("/health", Null),
                          KV("/search", Obj(<<KV("get", Operation("search", <<>>))>>))>>))>>,
      \* path-level summary (a string) after an operation
      <<KV("paths", Obj(<<KV("/search", Obj(<<KV("get", Operation("search", <<>>)),
                                              KV("summary", Str("Search the web"))>>))>>))>>,
      \* an operation without content
      <<KV("paths", Obj(<<KV("/search", Obj(<<KV("get", Null)>>))>>))>>,
      \* path-level servers (an array) besides an operation
      <<KV("paths", Obj(<<KV("/search", Obj(<<
              KV("servers", Arr(<<Server("https://alt.example.com", "alt")>>)),
              KV("get", Operation("search", <<>>))>>))>>))>> }

Preamble ==
    <<KV("openapi", Str("3.0.0")),
      KV("info", Obj(<<KV("title", Str("Web Search Agent")), KV("version", Str("1.0"))>>))>>

BaseServers == <<>>

BaseComponents == <<KV("components", Obj(<<Schemas>>))>>

BasePaths ==
    <<KV("paths", Obj(<<KV("/search", Obj(<<KV("get", Operation("search", <<>>))>>))>>))>>

Document(servers, components, paths) ==
    Obj(Preamble \o servers \o components \o paths)

RawDocuments ==
    {Document(s, BaseComponents, BasePaths) : s \in ServersChoices}
      \cup {Document(BaseServers, c, BasePaths) : c \in ComponentsChoices}
      \cup {Document(BaseServers, BaseComponents, p) : p \in PathsChoices}
      \cup {Document(s, c, p) : s \in ServersChoices \ {<<>>, <<KV("servers", Arr(<<>>))>>},
                                c \in ComponentsChoices \ {<<>>, <<KV("components", Null)>>},
                                p \in PathsChoices}

\* A file: absent, or holding text.
NoFile == [exists |-> FALSE, text |-> <<>>]

File(text) == [exists |-> TRUE, text |-> text]

\* web-search-spec.yaml: absent, empty, cut short, or one of the documents.
InputFiles ==
    {NoFile, File(<<>>), File(<<Tok("{", ""), Tok("key", "openapi")>>)}
      \cup {File(dump(d)) : d \in RawDocuments}

(***************************************************************************)
(* AgentStack and PluginStack: the values they compute.                    *)
(***************************************************************************)
\* AgentStack.agentUrl
AgentUrl(https) ==
    IF https.present
    THEN "https://" \o https.fullyQualifiedUrl
    ELSE "http://" \o LoadBalancerDnsName

NoOauthConfig == [tokenUrl |-> "", authorizationUrl |-> "", secretArn |-> "", roleArn |-> ""]

\* The two URLs of the plugin section change places.
createOauthConfigurationSwapped(secretArn, roleArn, appConfig) ==
    [tokenUrl |-> appConfig.plugin.authorizationUrl,
     authorizationUrl |-> appConfig.plugin.tokenUrl,
     secretArn |-> secretArn, roleArn |-> roleArn]

createOauthConfiguration(secretArn, roleArn, appConfig) ==
    [tokenUrl |-> appConfig.plugin.tokenUrl,
     authorizationUrl |-> appConfig.plugin.authorizationUrl,
     secretArn |-> secretArn, roleArn |-> roleArn]

(***************************************************************************)
(* createQBusinessPlugin: the three assignments to the loaded schema.      *)
(***************************************************************************)
ServerDescription == "ALB for Web Search Agent"

\* schema.servers appended to instead of replaced.
withServersAppended(schema, webSearchAgentUrl) ==
    SetProp(schema, "servers",
            Arr((IF GetProp(schema, "servers").k = "seq"
                 THEN GetProp(schema, "servers").items ELSE <<>>)
                \o <<Server(webSearchAgentUrl, ServerDescription)>>))

\* schema.servers = [{url, description}]
withServers(schema, webSearchAgentUrl) ==
    SetProp(schema, "servers", Arr(<<Server(webSearchAgentUrl, ServerDescription)>>))

\* The value assigned to schema.components.securitySchemes.
securitySchemes(plugin) ==
    Obj(<<KV("oauth2", Obj(<<
        KV("type", Str("oauth2")),
        KV("description", Str("Auth2 Authorization Code flow for authentication")),
        KV("flows", Obj(<<KV("authorizationCode", Obj(<<
            KV("authorizationUrl", Str(plugin.authorizationUrl)),
            KV("tokenUrl", Str(plugin.tokenUrl)),
            KV("scopes", Obj(<<KV(plugin.scopes,
                                  Str("Access to web search functionality"))>>))>>))>>))>>))>>)

\* schema.components defaulted to {} when the document has none.
componentsOrEmpty(schema) ==
    IF CanSetProp(GetProp(schema, "components"))
    THEN GetProp(schema, "components")
    ELSE Obj(<<>>)

\* schema.components
componentsOf(schema) == GetProp(schema, "components")

\* An oauth2 scheme the document already has is kept.
withSecuritySchemesKept(schema, plugin) ==
    IF GetProp(GetProp(componentsOf(schema), "securitySchemes"), "oauth2") # Undefined
    THEN schema
    ELSE SetProp(schema, "components",
                 SetProp(componentsOf(schema), "securitySchemes", securitySchemes(plugin)))

\* schema.components.securitySchemes = {...}
withSecuritySchemes(schema, plugin) ==
    SetProp(schema, "components",
            SetProp(componentsOf(schema), "securitySchemes", securitySchemes(plugin)))

\* The value assigned to methodObj.security.
security(scopes) == Arr(<<Requirement("oauth2", <<Str(scopes)>>)>>)

\* The security an operation already has is kept.
withSecurityIfAbsent(methodObj, scopes) ==
    IF GetProp(methodObj, "security") # Undefined THEN methodObj
    ELSE SetProp(methodObj, "security", security(scopes))

\* The requirement is added to the security the operation already has.
withSecurityAdded(methodObj, scopes) ==
    SetProp(methodObj, "security",
            Arr((IF GetProp(methodObj, "security").k = "seq"
                 THEN GetProp(methodObj, "security").items ELSE <<>>)
                \o security(scopes).items))

\* The operation is replaced by one that holds security alone.
withSecurityOnly(methodObj, scopes) ==
    [methodObj EXCEPT !.pairs = <<KV("security", security(scopes))>>]

\* methodObj.security = [{oauth2: [scopes]}]
withSecurity(methodObj, scopes) == SetProp(methodObj, "security", security(scopes))

\* Only the first path is visited.
pathKeysFirstOnly(schema) ==
    IF ForInKeys(GetProp(schema, "paths")) = <<>> THEN <<>>
    ELSE <<Head(ForInKeys(GetProp(schema, "paths")))>>

\* for (const pathKey in schema.paths)
pathKeysOf(schema) == ForInKeys(GetProp(schema, "paths"))

\* schema.paths[pathKey]
pathObjOf(schema, pathKey) == GetProp(GetProp(schema, "paths"), pathKey)

\* The schema after methodObj, which is schema.paths[pathKey][methodKey], was
\* changed in place.
withMethodObj(schema, pathKey, methodKey, methodObj) ==
    SetProp(schema, "paths",
            SetProp(GetProp(schema, "paths"), pathKey,
                    SetProp(pathObjOf(schema, pathKey), methodKey, methodObj)))

RECURSIVE secureFrom(_, _, _, _)

\* The two for-in loops from position (pathIdx, methodIdx) on: the schema they
\* leave, or the TypeError that ends them.
secureFrom(s, pi, mi, scopes) ==
    IF pi > Len(pathKeysOf(s)) THEN [ok |-> TRUE, schema |-> s]
    ELSE LET pathKey == pathKeysOf(s)[pi]
             pathObj == pathObjOf(s, pathKey)
             methodKeys == ForInKeys(pathObj)
         IN  IF mi > Len(methodKeys) THEN secureFrom(s, pi + 1, 1, scopes)
             ELSE IF methodKeys[mi] = "parameters" THEN secureFrom(s, pi, mi + 1, scopes)
             ELSE IF ~CanSetProp(GetProp(pathObj, methodKeys[mi]))
                  THEN [ok |-> FALSE, schema |-> s]
             ELSE secureFrom(withMethodObj(s, pathKey, methodKeys[mi],
                                 withSecurity(GetProp(pathObj, methodKeys[mi]), scopes)),
                             pi, mi + 1, scopes)

\* The three assignments in a row, on a loaded schema.
configure(s, webSearchAgentUrl, plugin) ==
    IF ~CanSetProp(s) THEN [ok |-> FALSE, schema |-> s]
    ELSE IF ~CanSetProp(componentsOf(withServers(s, webSearchAgentUrl)))
         THEN [ok |-> FALSE, schema |-> withServers(s, webSearchAgentUrl)]
    ELSE secureFrom(withSecuritySchemes(withServers(s, webSearchAgentUrl), plugin),
                    1, 1, plugin.scopes)

\* web-search-spec-updated.yaml as an earlier deployment, of the base document
\* without an https section, left it.
StaleOutput ==
    File(dump(configure(Document(BaseServers, BaseComponents, BasePaths),
                        AgentUrl(NoHttps), ConfigHttp.plugin).schema))

(***************************************************************************)
(* State.                                                                  *)
(***************************************************************************)
VARIABLES
    configFile,   \* config.yaml: the AppConfig it holds
    configFault,  \* config.yaml: the exception reading or parsing it raises, "" if none
    inputFile,    \* lib/web-search-spec.yaml
    outFile,      \* lib/web-search-spec-updated.yaml
    pc,           \* the statement the running entry point is at, or "idle"
    instance,     \* ConfigLoader.instance
    agentStack,   \* the AgentStack of this run and its agentUrl
    oauthConfig,  \* PluginStack constructor: oauthConfig
    schema,       \* createQBusinessPlugin: schema
    pathIdx,      \* position of the outer for-in loop in the keys of schema.paths
    methodIdx,    \* position of the inner for-in loop in the keys of pathObj
    plugin,       \* the CfnPlugin of this run
    error,        \* the exception that ended this run, "" if none
    pluginStack,  \* the PluginStack of this run: its props, its dependency
    outBefore,    \* history: outFile when this run started
    trace,        \* history: the statements this run has completed, in order
    returned,     \* history: the loaders getInstance has returned in this run
    produced      \* history: per configuration, what the runs that succeeded
                  \* under it left as output file and registered as payload

files == <<configFile, configFault, inputFile, outFile>>

memory == <<instance, agentStack, pluginStack, oauthConfig, schema, pathIdx, methodIdx,
            plugin, error>>

vars == <<configFile, configFault, inputFile, outFile, pc, instance, agentStack, pluginStack,
          oauthConfig, schema, pathIdx, methodIdx, plugin, error, outBefore, trace,
          returned, produced>>

\* Calls of ConfigLoader.getInstance() in one run.
MaxCalls == 2

NoConfig == AppConfig("", "", NoHttps, PluginConfig("", "", ""))

\* id tells the ConfigLoader objects of one run apart: the n-th constructed.
NoInstance == [set |-> FALSE, config |-> NoConfig, id |-> 0]

NoPluginStack ==
    [built |-> FALSE, props |-> [appConfig |-> NoConfig, agentUrl |-> ""],
     dependsOnAgentStack |-> FALSE]

NoAgentStack == [built |-> FALSE, agentUrl |-> "", listeners |-> <<>>]

NoPlugin ==
    [created |-> FALSE, applicationId |-> "", type |-> "", displayName |-> "",
     authConfiguration |-> NoOauthConfig, apiSchemaType |-> "", payload |-> <<>>]

\* The memory of a process that has not run a statement yet.
FreshMemory ==
    /\ instance = NoInstance
    /\ agentStack = NoAgentStack
    /\ pluginStack = NoPluginStack
    /\ oauthConfig = NoOauthConfig
    /\ schema = Undefined
    /\ pathIdx = 1
    /\ methodIdx = 1
    /\ plugin = NoPlugin
    /\ error = ""

Init ==
    /\ configFile = ConfigHttps
    /\ configFault = ""
    /\ inputFile \in InputFiles
    /\ outFile \in {NoFile, StaleOutput}
    /\ pc = "idle"
    /\ FreshMemory
    /\ outBefore = outFile
    /\ trace = <<>>
    /\ returned = {}
    /\ produced = [c \in Configs |-> {}]

\* An exception nothing catches: the entry point ends.
Throw(e) ==
    /\ pc' = "failed"
    /\ error' = e

(***************************************************************************)
(* The entry point (bin): ConfigLoader, AgentStack, PluginStack.           *)
(***************************************************************************)
\* The operator edits config.yaml (or leaves it) and runs the entry point.
StartRun(c, fault) ==
    /\ pc = "idle"
    /\ configFile' = c
    /\ configFault' = fault
    /\ outBefore' = outFile
    /\ pc' = "getInstance"
    /\ UNCHANGED <<inputFile, outFile, memory, trace, returned, produced>>

\* config.yaml is missing (readFileSync throws) or is not YAML (yaml.load throws).
ConfigFaults == {"", "ENOENT", "YAMLException"}

\* loadConfig(): the config read, or the Error thrown in the catch block.
loadConfig(file, fault) ==
    IF fault = ""
    THEN [ok |-> TRUE, config |-> file, error |-> ""]
    ELSE [ok |-> FALSE, config |-> NoConfig,
          error |-> "Failed to load config.yaml: " \o fault]

\* A loader is constructed, and config.yaml read, on every call.
getInstanceAlwaysNew(inst, file, fault) ==
    IF loadConfig(file, fault).ok
    THEN [set |-> TRUE, config |-> loadConfig(file, fault).config, id |-> inst.id + 1]
    ELSE inst

\* The loader is stored before its config is loaded, and stays when that fails.
getInstanceStoredFirst(inst, file, fault) ==
    IF ~inst.set
    THEN [set |-> TRUE, config |-> loadConfig(file, fault).config, id |-> inst.id + 1]
    ELSE inst

\* ConfigLoader.getInstance(): ConfigLoader.instance after the call, which is
\* what the call returns when it returns; the constructor loads config.yaml,
\* and when that throws nothing is assigned.
getInstance(inst, file, fault) ==
    IF ~inst.set
    THEN IF loadConfig(file, fault).ok
         THEN [set |-> TRUE, config |-> loadConfig(file, fault).config,
               id |-> inst.id + 1]
         ELSE inst
    ELSE inst

\* The call constructs a loader whose loadConfig throws.
GetInstanceThrows == ~instance.set /\ ~loadConfig(configFile, configFault).ok

\* What a call of getInstance adds to the trace.
GetInstanceTrace ==
    IF GetInstanceThrows THEN <<"readConfig", "getInstanceThrew">>
    ELSE IF getInstance(instance, configFile, configFault).id # instance.id
    THEN <<"readConfig", "getInstance">>
    ELSE <<"getInstance">>

\* const configLoader = ConfigLoader.getInstance()
GetInstance ==
    /\ pc = "getInstance"
    /\ instance' = getInstance(instance, configFile, configFault)
    /\ trace' = trace \o GetInstanceTrace
    /\ IF GetInstanceThrows
       THEN /\ Throw(loadConfig(configFile, configFault).error)
            /\ UNCHANGED returned
       ELSE /\ returned' = returned \cup {getInstance(instance, configFile, configFault).id}
            /\ pc' = "agentStack"
            /\ UNCHANGED error
    /\ UNCHANGED <<files, agentStack, pluginStack, oauthConfig, schema, pathIdx,
                   methodIdx, plugin, outBefore, produced>>

\* ConfigLoader.getInstance() called once more: before the stacks are built,
\* or by a caller that caught the Error of a call that threw.
GetInstanceAgain ==
    /\ \/ pc = "agentStack"
       \/ pc = "failed" /\ trace # <<>> /\ trace[Len(trace)] = "getInstanceThrew"
    /\ Len(SelectSeq(trace, LAMBDA x : x \in {"getInstance", "getInstanceThrew"}))
           < MaxCalls
    /\ instance' = getInstance(instance, configFile, configFault)
    /\ trace' = trace \o GetInstanceTrace
    /\ IF GetInstanceThrows
       THEN /\ Throw(loadConfig(configFile, configFault).error)
            /\ UNCHANGED returned
       ELSE /\ returned' = returned \cup {getInstance(instance, configFile, configFault).id}
            /\ UNCHANGED <<pc, error>>
    /\ UNCHANGED <<files, agentStack, pluginStack, oauthConfig, schema, pathIdx,
                   methodIdx, plugin, outBefore, produced>>

\* getAppConfig()
appConfig == instance.config

NoRedirect == [protocol |-> "", port |-> ""]

\* lb.addListener(id, {port, protocol | defaultAction}) and the targets that
\* addTargets gives it.
Listener(id, port, protocol, targets, redirect) ==
    [id |-> id, port |-> port, protocol |-> protocol, targets |-> targets,
     redirect |-> redirect]

\* The port-80 listener forwards to the service as well as the 443 listener.
listenersBothForward(https) ==
    IF https.present
    THEN <<Listener("AgentHttpsListener", 443, "HTTPS", <<"service">>, NoRedirect),
           Listener("AgentHttpListener", 80, "HTTP", <<"service">>, NoRedirect)>>
    ELSE <<Listener("AgentHttpListener", 80, "HTTP", <<"service">>, NoRedirect)>>

\* if (props.https) {443 listener with the service as target, port-80 listener
\* that redirects} else {port-80 listener with the service as target}
listeners(https) ==
    IF https.present
    THEN <<Listener("AgentHttpsListener", 443, "HTTPS", <<"service">>, NoRedirect),
           Listener("AgentHttpListener", 80, "HTTP", <<>>,
                    [protocol |-> "HTTPS", port |-> "443"])>>
    ELSE <<Listener("AgentHttpListener", 80, "HTTP", <<"service">>, NoRedirect)>>

\* new AgentStack(...): adds the listeners and sets agentUrl.
NewAgentStack ==
    /\ pc = "agentStack"
    /\ agentStack' = [built |-> TRUE, agentUrl |-> AgentUrl(appConfig.https),
                      listeners |-> listeners(appConfig.https)]
    /\ trace' = Append(trace, "agentStack")
    /\ pc' = "pluginStack"
    /\ UNCHANGED <<files, instance, pluginStack, oauthConfig, schema, pathIdx,
                   methodIdx, plugin, error, outBefore, returned, produced>>

\* The props always name the load balancer.
pluginStackPropsOfLoadBalancer(config, agent) ==
    [appConfig |-> config, agentUrl |-> "http://" \o LoadBalancerDnsName]

\* {appConfig: appConfig, agentUrl: agentStack.agentUrl}
pluginStackProps(config, agent) ==
    [appConfig |-> config, agentUrl |-> agent.agentUrl]

\* new PluginStack(...) up to the call of createQBusinessPlugin.
NewPluginStack ==
    /\ pc = "pluginStack"
    /\ pluginStack' = [built |-> TRUE,
                       props |-> pluginStackProps(appConfig, agentStack),
                       dependsOnAgentStack |-> FALSE]
    /\ oauthConfig' = createOauthConfiguration("arn:secret", "arn:role",
                                               pluginStackProps(appConfig, agentStack).appConfig)
    /\ trace' = Append(trace, "pluginStack")
    /\ pc' = "load"
    /\ UNCHANGED <<files, instance, agentStack, schema, pathIdx, methodIdx,
                   plugin, error, outBefore, returned, produced>>

(***************************************************************************)
(* createQBusinessPlugin, statement by statement.                          *)
(***************************************************************************)
\* yaml.load(fs.readFileSync(schemaPath, 'utf8'))
LoadSchema ==
    /\ pc = "load"
    /\ \/ /\ ~inputFile.exists
          /\ Throw("ENOENT")
          /\ UNCHANGED schema
       \/ /\ inputFile.exists
          /\ ~load(inputFile.text).ok
          /\ Throw("YAMLException")
          /\ UNCHANGED schema
       \/ /\ inputFile.exists
          /\ load(inputFile.text).ok
          /\ schema' = load(inputFile.text).val
          /\ pc' = "servers"
          /\ UNCHANGED error
    /\ trace' = IF pc' = "servers" THEN Append(trace, "load") ELSE trace
    /\ UNCHANGED <<files, instance, agentStack, pluginStack, oauthConfig, pathIdx,
                   methodIdx, plugin, outBefore, returned, produced>>

\* schema.servers = [...]
SetServers ==
    /\ pc = "servers"
    /\ \/ /\ ~CanSetProp(schema)
          /\ Throw("TypeError")
          /\ UNCHANGED schema
       \/ /\ CanSetProp(schema)
          /\ schema' = withServers(schema, pluginStack.props.agentUrl)
          /\ pc' = "securitySchemes"
          /\ UNCHANGED error
    /\ trace' = IF pc' = "securitySchemes" THEN Append(trace, "servers") ELSE trace
    /\ UNCHANGED <<files, instance, agentStack, pluginStack, oauthConfig, pathIdx,
                   methodIdx, plugin, outBefore, returned, produced>>

\* schema.components.securitySchemes = {...}
SetSecuritySchemes ==
    /\ pc = "securitySchemes"
    /\ \/ /\ ~CanSetProp(componentsOf(schema))
          /\ Throw("TypeError")
          /\ UNCHANGED schema
       \/ /\ CanSetProp(componentsOf(schema))
          /\ schema' = withSecuritySchemes(schema, pluginStack.props.appConfig.plugin)
          /\ pc' = "pathLoop"
          /\ UNCHANGED error
    /\ trace' = IF pc' = "pathLoop" THEN Append(trace, "securitySchemes") ELSE trace
    /\ UNCHANGED <<files, instance, agentStack, pluginStack, oauthConfig, pathIdx,
                   methodIdx, plugin, outBefore, returned, produced>>

\* for (const pathKey in schema.paths): the next path, or the end of the loop.
PathLoop ==
    /\ pc = "pathLoop"
    /\ \/ /\ pathIdx <= Len(pathKeysOf(schema))
          /\ methodIdx' = 1
          /\ pc' = "methodLoop"
       \/ /\ pathIdx > Len(pathKeysOf(schema))
          /\ pc' = "write"
          /\ UNCHANGED methodIdx
    /\ UNCHANGED <<files, instance, agentStack, pluginStack, oauthConfig, schema,
                   pathIdx, plugin, error, outBefore, trace, returned, produced>>

\* for (const methodKey in pathObj): one key, or the end of the inner loop.
MethodLoop ==
    /\ pc = "methodLoop"
    /\ LET pathKey == pathKeysOf(schema)[pathIdx]
           pathObj == pathObjOf(schema, pathKey)
           methodKeys == ForInKeys(pathObj)
       IN  \/ /\ methodIdx > Len(methodKeys)
              /\ pathIdx' = pathIdx + 1
              /\ pc' = "pathLoop"
              /\ UNCHANGED <<schema, methodIdx, error, trace>>
           \/ /\ methodIdx <= Len(methodKeys)
              /\ methodKeys[methodIdx] = "parameters"
              /\ methodIdx' = methodIdx + 1
              /\ UNCHANGED <<schema, pathIdx, pc, error, trace>>
           \/ /\ methodIdx <= Len(methodKeys)
              /\ methodKeys[methodIdx] # "parameters"
              /\ ~CanSetProp(GetProp(pathObj, methodKeys[methodIdx]))
              /\ Throw("TypeError")
              /\ UNCHANGED <<schema, pathIdx, methodIdx, trace>>
           \/ /\ methodIdx <= Len(methodKeys)
              /\ methodKeys[methodIdx] # "parameters"
              /\ CanSetProp(GetProp(pathObj, methodKeys[methodIdx]))
              /\ schema' = withMethodObj(schema, pathKey, methodKeys[methodIdx],
                               withSecurity(GetProp(pathObj, methodKeys[methodIdx]),
                                            pluginStack.props.appConfig.plugin.scopes))
              /\ methodIdx' = methodIdx + 1
              /\ trace' = Append(trace, "security")
              /\ UNCHANGED <<pathIdx, pc, error>>
    /\ UNCHANGED <<files, instance, agentStack, pluginStack, oauthConfig, plugin,
                   outBefore, returned, produced>>

\* The data is appended to what the file holds.
appendFileSync(file, data) == File(file.text \o data)

\* fs.writeFileSync(path, data, 'utf8'): the file holds data, whatever it held.
writeFileSync(file, data) == File(data)

\* A path is the sequence of its segments. __dirname of the stacks:
LibDir == <<"infra", "lib">>

\* path.dirname(p)
dirname(p) == SubSeq(p, 1, Len(p) - 1)

\* path.join(dir, name)
join(dir, name) == Append(dir, name)

\* const schemaPath = path.join(__dirname, 'web-search-spec.yaml')
schemaPath == join(LibDir, "web-search-spec.yaml")

\* The output goes to the path the input was read from.
updatedSchemaPathInPlace(p) == p

\* const schemaDir = path.dirname(schemaPath);
\* const updatedSchemaPath = path.join(schemaDir, 'web-search-spec-updated.yaml')
updatedSchemaPath(p) == join(dirname(p), "web-search-spec-updated.yaml")

\* fs.writeFileSync(updatedSchemaPath, yaml.dump(schema), 'utf8'): the file at
\* updatedSchemaPath is written, which is inputFile when that is the path of
\* the input; the path may not be writable.
WriteSchema ==
    /\ pc = "write"
    /\ \/ /\ Throw("EACCES")
          /\ UNCHANGED <<inputFile, outFile, trace>>
       \/ /\ IF updatedSchemaPath(schemaPath) = schemaPath
             THEN /\ inputFile' = writeFileSync(inputFile, dump(schema))
                  /\ UNCHANGED outFile
             ELSE /\ outFile' = writeFileSync(outFile, dump(schema))
                  /\ UNCHANGED inputFile
          /\ trace' = Append(trace, "write")
          /\ pc' = "createPlugin"
          /\ UNCHANGED error
    /\ UNCHANGED <<configFile, configFault, instance, agentStack, pluginStack,
                   oauthConfig, schema, pathIdx, methodIdx, plugin, outBefore, returned,
                   produced>>

\* The payload is dumped from a schema whose servers were cleared.
apiSchemaPayloadNoServers(s) == dump(SetProp(s, "servers", Arr(<<>>)))

\* The plugin is created from the schema in memory as soon as the loops are
\* over, and the output file is never written.
CreatePluginWithoutWrite ==
    /\ pc = "write"
    /\ plugin' = [created |-> TRUE,
                  applicationId |-> appConfig.qbusiness.applicationId,
                  type |-> "CUSTOM",
                  displayName |-> "websearch-plugin",
                  authConfiguration |-> oauthConfig,
                  apiSchemaType |-> "OPEN_API_V3",
                  payload |-> dump(schema)]
    /\ trace' = Append(trace, "plugin")
    /\ pc' = "addDependency"
    /\ UNCHANGED <<files, instance, agentStack, pluginStack, oauthConfig, schema,
                   pathIdx, methodIdx, error, outBefore, returned, produced>>

\* customPluginConfiguration.apiSchema.payload
apiSchemaPayload(s) == dump(s)

\* new qbusiness.CfnPlugin(this, 'WebSearchAgentPlugin', {...})
CreatePlugin ==
    /\ pc = "createPlugin"
    /\ plugin' = [created |-> TRUE,
                  applicationId |-> appConfig.qbusiness.applicationId,
                  type |-> "CUSTOM",
                  displayName |-> "websearch-plugin",
                  authConfiguration |-> oauthConfig,
                  apiSchemaType |-> "OPEN_API_V3",
                  payload |-> apiSchemaPayload(schema)]
    /\ trace' = Append(trace, "plugin")
    /\ pc' = "addDependency"
    /\ UNCHANGED <<files, instance, agentStack, pluginStack, oauthConfig, schema,
                   pathIdx, methodIdx, error, outBefore, returned, produced>>

\* pluginStack.addDependency(agentStack)
AddDependency ==
    /\ pc = "addDependency"
    /\ pluginStack' = [pluginStack EXCEPT !.dependsOnAgentStack = TRUE]
    /\ trace' = Append(trace, "addDependency")
    /\ pc' = "done"
    /\ UNCHANGED <<files, instance, agentStack, oauthConfig, schema, pathIdx,
                   methodIdx, plugin, error, outBefore, returned, produced>>

\* The process ends: its memory is gone, the files stay.
EndRun ==
    /\ pc \in {"done", "failed"}
    /\ produced' = IF pc = "done"
                   THEN [produced EXCEPT ![configFile] =
                            @ \cup {[file |-> outFile, payload |-> plugin.payload]}]
                   ELSE produced
    /\ instance' = NoInstance
    /\ agentStack' = NoAgentStack
    /\ pluginStack' = NoPluginStack
    /\ oauthConfig' = NoOauthConfig
    /\ schema' = Undefined
    /\ pathIdx' = 1
    /\ methodIdx' = 1
    /\ plugin' = NoPlugin
    /\ error' = ""
    /\ trace' = <<>>
    /\ returned' = {}
    /\ pc' = "idle"
    /\ UNCHANGED <<files, outBefore>>

Next ==
    \/ \E c \in Configs : \E fault \in ConfigFaults : StartRun(c, fault)
    \/ GetInstance
    \/ GetInstanceAgain
    \/ NewAgentStack
    \/ NewPluginStack
    \/ LoadSchema
    \/ SetServers
    \/ SetSecuritySchemes
    \/ PathLoop
    \/ MethodLoop
    \/ WriteSchema
    \/ CreatePlugin
    \/ AddDependency
    \/ EndRun

Spec == Init /\ [][Next]_vars

(***************************************************************************)
(* Properties.                                                             *)
(***************************************************************************)
\* web-search-spec.yaml as this run loads it.
Raw == load(inputFile.text).val

RawLoads == inputFile.exists /\ load(inputFile.text).ok

\* The three assignments of this run have all run without an exception.
Transformed == pc \in {"write", "createPlugin", "addDependency", "done"}

\* The output file was written by this run.
Written == pc \in {"createPlugin", "addDependency", "done"}

\* web-search-spec-updated.yaml, loaded.
Output == load(outFile.text).val

\* servers is one entry {url, description} with the given url.
OneServer(doc, url) ==
    LET servers == GetProp(doc, "servers")
    IN  /\ servers.k = "seq"
        /\ Len(servers.items) = 1
        /\ Keys(servers.items[1].pairs) = <<"url", "description">>
        /\ GetProp(servers.items[1], "url") = Str(url)
        /\ GetProp(servers.items[1], "description") = Str("ALB for Web Search Agent")

\* C1: once the three assignments have run, servers of the document in memory,
\* and of the output file once written, is exactly one entry whose url is the
\* agent URL passed in and whose description is 'ALB for Web Search Agent',
\* whatever servers the input held.
C1_ServersReplaced ==
    /\ Transformed => OneServer(schema, agentStack.agentUrl)
    /\ Written => OneServer(Output, agentStack.agentUrl)

\* C1 witness: a run ended well on an input that had two servers entries.
C1_Witness ==
    /\ pc = "done"
    /\ Len(GetProp(Raw, "servers").items) = 2

AuthorizationCodeFlow(doc) ==
    GetProp(GetProp(GetProp(GetProp(GetProp(doc, "components"), "securitySchemes"),
                            "oauth2"), "flows"), "authorizationCode")

\* The oauth2 scheme carries the plugin's URLs and its scopes string as only key.
Oauth2Scheme(doc, pluginConfig) ==
    LET flow == AuthorizationCodeFlow(doc)
    IN  /\ flow.k = "map"
        /\ GetProp(flow, "authorizationUrl") = Str(pluginConfig.authorizationUrl)
        /\ GetProp(flow, "tokenUrl") = Str(pluginConfig.tokenUrl)
        /\ GetProp(flow, "scopes").k = "map"
        /\ Keys(GetProp(flow, "scopes").pairs) = <<pluginConfig.scopes>>

\* C2: once the three assignments have run, components.securitySchemes.oauth2
\* exists with an authorizationCode flow holding the configured authorizationUrl
\* and tokenUrl and a scopes mapping whose only key is the whole plugin.scopes
\* string; the same holds of the output file once written.
C2_Oauth2Scheme ==
    /\ Transformed => Oauth2Scheme(schema, appConfig.plugin)
    /\ Written => Oauth2Scheme(Output, appConfig.plugin)

\* C2 witness: a run ended well under the two-word scopes string on an input
\* that already had an oauth2 scheme with two scopes.
C2_Witness ==
    /\ pc = "done"
    /\ appConfig = ConfigHttp
    /\ Len(GetProp(AuthorizationCodeFlow(Raw), "scopes").pairs) = 2

\* The keys of paths of a document.
PathsIn(doc) == Keys(GetProp(doc, "paths").pairs)

\* security is the one requirement {oauth2: [scopes]}.
OneRequirement(sec, scopes) ==
    /\ sec.k = "seq"
    /\ Len(sec.items) = 1
    /\ Keys(sec.items[1].pairs) = <<"oauth2">>
    /\ GetProp(sec.items[1], "oauth2").k = "seq"
    /\ GetProp(sec.items[1], "oauth2").items = <<Str(scopes)>>

\* Every key of every path entry but parameters has that security; parameters
\* is what it is in web-search-spec.yaml.
AllSecured(doc, scopes) ==
    \A i \in 1..Len(PathsIn(doc)) :
        LET pathObj == pathObjOf(doc, PathsIn(doc)[i])
            rawObj == pathObjOf(Raw, PathsIn(doc)[i])
        IN  \A j \in 1..Len(ForInKeys(pathObj)) :
                LET methodKey == ForInKeys(pathObj)[j]
                IN  IF methodKey = "parameters"
                    THEN /\ GetProp(pathObj, methodKey) = GetProp(rawObj, methodKey)
                         /\ GetProp(GetProp(pathObj, methodKey), "security") = Undefined
                    ELSE OneRequirement(GetProp(GetProp(pathObj, methodKey), "security"),
                                        scopes)

\* The same of the entries of the output file that are mappings.
AllOperationsSecured(doc, scopes) ==
    \A i \in 1..Len(PathsIn(doc)) :
        LET pathObj == pathObjOf(doc, PathsIn(doc)[i])
        IN  \A j \in 1..Len(ForInKeys(pathObj)) :
                LET methodKey == ForInKeys(pathObj)[j]
                IN  (methodKey # "parameters" /\ GetProp(pathObj, methodKey).k = "map")
                        => OneRequirement(GetProp(GetProp(pathObj, methodKey), "security"),
                                          scopes)

\* C3: once the loops have run, in the document in memory every key other than
\* parameters of every path entry has security equal to the one-element
\* sequence [{oauth2: [scopes]}], whatever it had before, scopes being the only
\* key of the declared oauth2 scopes; a path-level parameters entry is as in
\* the input and has no security; the paths and their keys are those of the
\* input; and every operation of the written file has the same security.
C3_SecurityOverwritten ==
    /\ Transformed =>
          /\ AllSecured(schema, appConfig.plugin.scopes)
          /\ PathsIn(schema) = PathsIn(Raw)
          /\ \A i \in 1..Len(PathsIn(Raw)) :
                ForInKeys(pathObjOf(schema, PathsIn(Raw)[i]))
                    = ForInKeys(pathObjOf(Raw, PathsIn(Raw)[i]))
          /\ Keys(GetProp(AuthorizationCodeFlow(schema), "scopes").pairs)
                = <<appConfig.plugin.scopes>>
    /\ Written =>
          /\ PathsIn(Output) = PathsIn(Raw)
          /\ AllOperationsSecured(Output, appConfig.plugin.scopes)

\* C3 witness: a run ended well on the input whose operations had an empty
\* security, another scheme, another scope and several requirements, and whose
\* first path has a parameters entry.
C3_Witness ==
    /\ pc = "done"
    /\ Len(PathsIn(Raw)) = 3
    /\ GetProp(pathObjOf(Raw, "/search"), "parameters").k = "seq"
    /\ Len(GetProp(GetProp(pathObjOf(Raw, "/crawl"), "post"), "security").items) = 2
    /\ GetProp(GetProp(pathObjOf(Raw, "/search"), "post"), "security") = Arr(<<>>)

\* C4: every run that succeeds under a configuration leaves the same output
\* file and registers the same payload as every other run that succeeded under
\* that configuration, whatever ran in between and whatever the output file held.
C4_SameConfigSameOutput ==
    /\ \A c \in Configs : Cardinality(produced[c]) <= 1
    /\ pc = "done" =>
          \A r \in produced[configFile] :
              r.file = outFile /\ r.payload = plugin.payload

\* C4 witness: a run ended well under a configuration that an earlier run ended
\* well under, and started from the output of a run under another configuration.
C4_Witness ==
    /\ pc = "done"
    /\ produced[configFile] # {}
    /\ \E c \in Configs \ {configFile} : \E r \in produced[c] : r.file = outBefore
    /\ outBefore # outFile

\* C5: the document the run holds after the three assignments is what configure
\* makes of the loaded input, and configure applied to it again with the same
\* URL and plugin configuration succeeds and yields it unchanged; applied to
\* the loaded output file, it succeeds and dumps to the text of that file.
C5_Idempotent ==
    /\ Transformed =>
          /\ configure(Raw, agentStack.agentUrl, appConfig.plugin)
                = [ok |-> TRUE, schema |-> schema]
          /\ configure(schema, agentStack.agentUrl, appConfig.plugin)
                = [ok |-> TRUE, schema |-> schema]
    /\ Written =>
          /\ configure(Output, agentStack.agentUrl, appConfig.plugin).ok
          /\ dump(configure(Output, agentStack.agentUrl, appConfig.plugin).schema)
                = outFile.text

\* C5 witness: a run ended well on an input that had servers, an oauth2 scheme
\* and operations with security, all changed by the run.
C5_Witness ==
    /\ pc = "done"
    /\ Len(GetProp(Raw, "servers").items) >= 1
    /\ AuthorizationCodeFlow(Raw) # Undefined
    /\ Len(PathsIn(Raw)) = 3
    /\ schema # Raw

\* The loaded input is a mapping without a components key.
NoComponents == RawLoads /\ Raw.k = "map" /\ ~HasKey(Raw.pairs, "components")

\* C6: a run that loaded its configuration, on an input document without
\* components, never gets past the
\* assignment to components.securitySchemes: it ends with a TypeError, the
\* output file is as it was when the run started and no plugin is created.
C6_NoComponentsFails ==
    (NoComponents /\ configFault = "" /\ pc # "idle") =>
        /\ pc \notin {"pathLoop", "methodLoop", "write", "createPlugin", "addDependency",
                     "done"}
        /\ pc = "failed" => error = "TypeError"
        /\ outFile = outBefore
        /\ ~plugin.created

\* C6 witness: such a run has failed, with an output file left by an earlier
\* deployment.
C6_Witness ==
    /\ NoComponents
    /\ pc = "failed"
    /\ error = "TypeError"
    /\ GetProp(schema, "servers") # Undefined
    /\ outFile = StaleOutput

\* The loaded input is a mapping with a components mapping and without paths.
NoPaths ==
    /\ RawLoads
    /\ Raw.k = "map"
    /\ GetProp(Raw, "components").k = "map"
    /\ ~HasKey(Raw.pairs, "paths")

\* C7: a run on an input document with components and without paths fails:
\* it does not write the output file and creates no plugin.
C7_NoPathsFails ==
    (NoPaths /\ pc # "idle") =>
        /\ pc \notin {"createPlugin", "addDependency", "done"}
        /\ outFile = outBefore
        /\ ~plugin.created

\* A required value of the configuration is the empty string.
EmptyValue(config) ==
    "" \in {AgentUrl(config.https), config.plugin.authorizationUrl,
            config.plugin.tokenUrl, config.plugin.scopes}

\* C8: a run under a configuration with an empty required value fails before
\* any of the three assignments: the schema is never changed, the output file
\* is not written and no plugin is created.
C8_EmptyConfigurationFails ==
    (EmptyValue(configFile) /\ pc # "idle") =>
        /\ schema \in {Undefined, Raw}
        /\ outFile = outBefore
        /\ ~plugin.created

\* C9: the output file changes only in the write that follows the three
\* assignments, when servers, the oauth2 scheme and the security of every key
\* of every path are set in the document written; a run that is before the
\* write, or has failed, has left the output file as it was when it started;
\* and a plugin exists only in a run that has ended well.
C9_NoPartialSuccess ==
    /\ pc \notin {"idle", "createPlugin", "addDependency", "done"} => outFile = outBefore
    /\ pc \notin {"addDependency", "done"} => ~plugin.created
    /\ Written =>
          /\ outFile = File(dump(schema))
          /\ OneServer(schema, agentStack.agentUrl)
          /\ Oauth2Scheme(schema, appConfig.plugin)
          /\ AllSecured(schema, appConfig.plugin.scopes)

\* C9 witness: a run failed in the inner loop, on a path-level summary, after it
\* had set servers, the oauth2 scheme and the security of one operation in
\* memory, the output file still holding an earlier deployment's document.
C9_Witness ==
    /\ pc = "failed"
    /\ error = "TypeError"
    /\ OneServer(schema, agentStack.agentUrl)
    /\ Oauth2Scheme(schema, appConfig.plugin)
    /\ OneRequirement(GetProp(GetProp(pathObjOf(schema, "/search"), "get"), "security"),
                      appConfig.plugin.scopes)
    /\ GetProp(pathObjOf(schema, "/search"), "summary").k = "str"
    /\ outFile = StaleOutput
    /\ ~plugin.created

\* C10: when a run has ended well, the text of web-search-spec-updated.yaml is
\* the payload of the plugin it created.
C10_FileIsPayload ==
    pc = "done" =>
        /\ plugin.created
        /\ outFile.exists
        /\ outFile.text = plugin.payload

\* C10 witness: a run ended well and replaced the output file it found.
C10_Witness ==
    /\ pc = "done"
    /\ outBefore.exists
    /\ outBefore # outFile
    /\ plugin.payload # <<>>

\* The host names a server URL of a deployment can carry.
Hosts == {c.https.fullyQualifiedUrl : c \in Configs} \cup {LoadBalancerDnsName}

\* C11: once the three assignments have run, the url of the single servers
\* entry is 'https://' followed by a host name, under every configuration,
\* the one without an https section included.
C11_ServerUrlIsHttps ==
    Transformed =>
        \E h \in Hosts :
            GetProp(GetProp(schema, "servers").items[1], "url") = Str("https://" \o h)

\* The scheme entries of components.securitySchemes of a document.
SchemesOf(doc) == GetProp(GetProp(doc, "components"), "securitySchemes")

\* C12: once the three assignments have run, every scheme entry other than
\* oauth2 that the input document had under components.securitySchemes is
\* still there, unchanged, in the document in memory and in the output file.
C12_OtherSchemesKept ==
    /\ Transformed =>
          \A i \in 1..Len(SchemesOf(Raw).pairs) :
              SchemesOf(Raw).pairs[i].key # "oauth2" =>
                  GetProp(SchemesOf(schema), SchemesOf(Raw).pairs[i].key)
                      = SchemesOf(Raw).pairs[i].val
    /\ Written =>
          \A i \in 1..Len(SchemesOf(Raw).pairs) :
              SchemesOf(Raw).pairs[i].key # "oauth2" =>
                  GetProp(SchemesOf(Output), SchemesOf(Raw).pairs[i].key)
                      = SchemesOf(Raw).pairs[i].val

\* C13: loading the text dumped from the document in memory gives back that
\* document: in the output file once written, and in the payload of the plugin
\* once created.
C13_RoundTrip ==
    /\ Transformed => load(dump(schema)) = Parsed(schema, Len(dump(schema)) + 1)
    /\ Written => load(outFile.text).ok /\ Output = schema
    /\ plugin.created => load(plugin.payload).val = schema

\* The loaded input is a mapping with a components mapping and a paths mapping.
ComponentsAndPaths ==
    /\ RawLoads
    /\ Raw.k = "map"
    /\ GetProp(Raw, "components").k = "map"
    /\ GetProp(Raw, "paths").k = "map"

\* C14: a run on an input document with a components mapping and a paths
\* mapping, under a configuration that loads and has no empty value, never
\* fails short of
\* the write: it fails in the write itself or not at all, and at the write
\* every key other than parameters of every path carries the security set.
C14_CompletesOnEveryPathEntry ==
    (ComponentsAndPaths /\ configFault = "" /\ ~EmptyValue(configFile) /\ pc # "idle") =>
        /\ pc = "failed" => error = "EACCES"
        /\ Transformed =>
              \A i \in 1..Len(GetProp(Raw, "paths").pairs) :
                  LET pathObj == GetProp(GetProp(schema, "paths"),
                                         GetProp(Raw, "paths").pairs[i].key)
                  IN  \A j \in 1..Len(ForInKeys(pathObj)) :
                          ForInKeys(pathObj)[j] # "parameters" =>
                              GetProp(GetProp(pathObj, ForInKeys(pathObj)[j]), "security")
                                  = security(configFile.plugin.scopes)

\* A value without its property key.
RemoveKey(v, key) == [v EXCEPT !.pairs = SelectSeq(@, LAMBDA p : p.key # key)]

\* A path item in which no entry other than parameters has a security.
EraseSecurity(pathObj) ==
    IF ~IsObject(pathObj) THEN pathObj
    ELSE [pathObj EXCEPT !.pairs =
             [j \in 1..Len(@) |->
                 IF @[j].key # "parameters" /\ IsObject(@[j].val)
                 THEN KV(@[j].key, RemoveKey(@[j].val, "security"))
                 ELSE @[j]]]

\* A document without the three parts the transformation assigns: servers,
\* components.securitySchemes and the security of the entries of each path.
Erase(doc) ==
    LET noServers == RemoveKey(doc, "servers")
        noSchemes == [noServers EXCEPT !.pairs =
                         [i \in 1..Len(@) |->
                             IF @[i].key = "components" /\ IsObject(@[i].val)
                             THEN KV("components", RemoveKey(@[i].val, "securitySchemes"))
                             ELSE @[i]]]
    IN  [noSchemes EXCEPT !.pairs =
            [i \in 1..Len(@) |->
                IF @[i].key = "paths" /\ IsObject(@[i].val)
                THEN KV("paths", [@[i].val EXCEPT !.pairs =
                                     [j \in 1..Len(@) |->
                                         KV(@[j].key, EraseSecurity(@[j].val))]])
                ELSE @[i]]]

\* The input was loaded and the run has not failed.
Loaded == pc \in {"servers", "securitySchemes", "pathLoop", "methodLoop"} \/ Transformed

\* C19: from the load on, the document in memory differs from the input in
\* servers, components.securitySchemes and the security of the entries other
\* than parameters of each path, and in nothing else: the same paths with the
\* same keys in the same order, the same fields of every operation, the same
\* top-level keys and components; the same holds of the output file written.
C19_Frame ==
    /\ Loaded =>
          /\ Erase(schema) = Erase(Raw)
          /\ Keys(GetProp(schema, "paths").pairs) = Keys(GetProp(Raw, "paths").pairs)
    /\ Written => Erase(Output) = Erase(Raw)

\* C19 witness: a run has written the output for an input of three paths with
\* path-level parameters, schemas under components and servers of its own, and
\* the output differs from the input.
C19_Witness ==
    /\ Written
    /\ Len(GetProp(Raw, "paths").pairs) = 3
    /\ \E i \in 1..3 : HasKey(GetProp(Raw, "paths").pairs[i].val.pairs, "parameters")
    /\ GetProp(GetProp(Raw, "components"), "schemas") # Undefined
    /\ GetProp(Raw, "servers") # Undefined
    /\ Output # Raw

\* C20: the tokenUrl and the authorizationUrl of the authConfiguration of a
\* created plugin are those of the authorizationCode flow of the oauth2 scheme
\* in the payload of that plugin.
C20_AuthConsistent ==
    plugin.created =>
        /\ load(plugin.payload).ok
        /\ GetProp(AuthorizationCodeFlow(load(plugin.payload).val), "tokenUrl")
               = Str(plugin.authConfiguration.tokenUrl)
        /\ GetProp(AuthorizationCodeFlow(load(plugin.payload).val), "authorizationUrl")
               = Str(plugin.authConfiguration.authorizationUrl)

\* C20 witness: a plugin was created under a configuration whose two URLs
\* differ, on an input that declared an oauth2 scheme with other URLs.
C20_Witness ==
    /\ plugin.created
    /\ plugin.authConfiguration.tokenUrl # plugin.authConfiguration.authorizationUrl
    /\ plugin.authConfiguration.tokenUrl # ""
    /\ SchemesOf(Raw) # Undefined
    /\ GetProp(SchemesOf(Raw), "oauth2") = OldOauth2

\* The statements of createQBusinessPlugin in the order of its text.
StatementOrder == <<"load", "servers", "securitySchemes", "security", "write", "plugin">>

Position(x) == CHOOSE i \in 1..Len(StatementOrder) : StatementOrder[i] = x

\* The statements of createQBusinessPlugin this run has completed, in order.
Statements == SelectSeq(trace, LAMBDA x : \E i \in 1..Len(StatementOrder) : StatementOrder[i] = x)

Count(x) == Len(SelectSeq(trace, LAMBDA y : y = x))

\* C15: the statements one run of createQBusinessPlugin has completed begin
\* with the load and follow one another as load, servers, securitySchemes,
\* security (once per entry), write, plugin, none of them skipped and none but
\* security repeated; a plugin exists only after the one write of this run,
\* when the output file holds the dump of the document in memory.
C15_StatementOrder ==
    /\ Statements # <<>> => Statements[1] = "load"
    /\ \A i \in 1..Len(Statements) - 1 :
          \/ Position(Statements[i + 1]) = Position(Statements[i]) + 1
          \/ Statements[i] = "security" /\ Statements[i + 1] = "security"
          \/ Statements[i] = "securitySchemes" /\ Statements[i + 1] = "write"
    /\ Count("write") <= 1
    /\ plugin.created =>
          /\ Count("write") = 1
          /\ Count("plugin") = 1
          /\ outFile = File(dump(schema))

\* C15 witness: a plugin was created in a run that set the security of four
\* entries and replaced the output file an earlier deployment had left.
C15_Witness ==
    /\ plugin.created
    /\ Count("security") = 4
    /\ outBefore = StaleOutput
    /\ outFile # outBefore

\* C16: no step of any run, ending well or failing, changes the input file;
\* the output file changes only in the write of createQBusinessPlugin; and the
\* path written is web-search-spec-updated.yaml in the directory of
\* web-search-spec.yaml, a path other than that of the input.
C16_InputNeverWritten ==
    /\ [](/\ updatedSchemaPath(schemaPath) # schemaPath
          /\ dirname(updatedSchemaPath(schemaPath)) = dirname(schemaPath)
          /\ updatedSchemaPath(schemaPath)[Len(updatedSchemaPath(schemaPath))]
                 = "web-search-spec-updated.yaml"
          /\ schemaPath[Len(schemaPath)] = "web-search-spec.yaml")
    /\ [][/\ inputFile' = inputFile
          /\ outFile' # outFile => pc = "write" /\ pc' = "createPlugin"]_vars

\* C16 witness: after a run that failed and a run that ended well, the output
\* file was written anew and the input file holds a document other than it.
C16_Witness ==
    /\ pc = "done"
    /\ \E c \in Configs : produced[c] # {}
    /\ outFile # outBefore
    /\ inputFile.exists
    /\ inputFile # outFile
    /\ Raw # Output

\* The place of the first x in the trace; past its end when there is none.
First(x) ==
    IF Count(x) = 0 THEN Len(trace) + 1
    ELSE CHOOSE i \in 1..Len(trace) :
             trace[i] = x /\ \A j \in 1..(i - 1) : trace[j] # x

\* C17: however often getInstance was called in a run, it returned one and
\* the same loader, the one ConfigLoader.instance holds; config.yaml was read
\* exactly once, in the first call; and that read came before the AgentStack
\* and the PluginStack were constructed.
C17_LazySingleton ==
    /\ Cardinality(returned) <= 1
    /\ Count("getInstance") >= 1 =>
          /\ instance.set
          /\ returned = {instance.id}
          /\ instance.config = configFile
          /\ Count("readConfig") = 1
          /\ First("readConfig") + 1 = First("getInstance")
    /\ agentStack.built => First("readConfig") < First("agentStack")
    /\ pluginStack.built => First("readConfig") < First("pluginStack")

\* C17 witness: getInstance was called twice and both stacks are constructed.
C17_Witness ==
    /\ Count("getInstance") = MaxCalls
    /\ agentStack.built
    /\ pluginStack.built

\* C18: the PluginStack is constructed after the AgentStack, with the agentUrl
\* the AgentStack computed as its prop; the servers assignment runs after the
\* AgentStack is constructed and puts exactly that URL into the one servers
\* entry, in memory and in the output file; and when the entry point has run
\* to its end the PluginStack is declared dependent on the AgentStack.
C18_StackOrder ==
    /\ pluginStack.built =>
          /\ agentStack.built
          /\ First("agentStack") < First("pluginStack")
          /\ pluginStack.props.agentUrl = agentStack.agentUrl
          /\ agentStack.agentUrl = AgentUrl(configFile.https)
    /\ Count("load") >= 1 => First("agentStack") < First("load")
    /\ Count("servers") >= 1 =>
          /\ First("agentStack") < First("servers")
          /\ GetProp(GetProp(schema, "servers").items[1], "url") = Str(agentStack.agentUrl)
          /\ Len(GetProp(schema, "servers").items) = 1
    /\ Written =>
          GetProp(GetProp(Output, "servers").items[1], "url") = Str(agentStack.agentUrl)
    /\ pluginStack.dependsOnAgentStack => pluginStack.built /\ agentStack.built
    /\ pc = "done" => pluginStack.dependsOnAgentStack

\* C18 witness: the entry point ran to its end under the configuration with an
\* https section, on an input whose servers named another URL.
C18_Witness ==
    /\ pc = "done"
    /\ pluginStack.dependsOnAgentStack
    /\ configFile.https.present
    /\ GetProp(Raw, "servers") # Undefined
    /\ GetProp(Raw, "servers") # GetProp(schema, "servers")

\* The listeners of the AgentStack that have the service as a target.
ServiceListeners ==
    SelectSeq(agentStack.listeners,
              LAMBDA l : \E i \in 1..Len(l.targets) : l.targets[i] = "service")

\* C21: a constructed AgentStack has set agentUrl once; with an https section
\* agentUrl is 'https://' and the fullyQualifiedUrl, not the load balancer's
\* name, the service is a target of the 443 listener alone and the port-80
\* listener has no target and redirects to HTTPS 443; without one agentUrl is
\* 'http://' and the load balancer's DNS name and the service is a target of
\* the port-80 listener, the only listener. Either way the service is the
\* target of exactly one listener.
C21_AgentUrlAndListeners ==
    agentStack.built =>
        /\ Count("agentStack") = 1
        /\ Len(ServiceListeners) = 1
        /\ Len(ServiceListeners[1].targets) = 1
        /\ IF configFile.https.present
           THEN /\ agentStack.agentUrl = "https://" \o configFile.https.fullyQualifiedUrl
                /\ agentStack.agentUrl # "https://" \o LoadBalancerDnsName
                /\ ServiceListeners[1].port = 443
                /\ ServiceListeners[1].protocol = "HTTPS"
                /\ Len(agentStack.listeners) = 2
                /\ \E i \in 1..2 :
                       /\ agentStack.listeners[i].port = 80
                       /\ agentStack.listeners[i].targets = <<>>
                       /\ agentStack.listeners[i].redirect
                              = [protocol |-> "HTTPS", port |-> "443"]
           ELSE /\ agentStack.agentUrl = "http://" \o LoadBalancerDnsName
                /\ ServiceListeners[1].port = 80
                /\ ServiceListeners[1].redirect = NoRedirect
                /\ Len(agentStack.listeners) = 1

\* C21 witness: a run has ended well under the configuration with an https
\* section after an earlier run ended well under the one without.
C21_Witness ==
    /\ pc = "done"
    /\ agentStack.built
    /\ configFile.https.present
    /\ \E c \in Configs : ~c.https.present /\ produced[c] # {}

\* The messages of the Error that loadConfig throws.
LoadErrors == {"Failed to load config.yaml: " \o fault : fault \in ConfigFaults \ {""}}

\* C22: when config.yaml cannot be read or parsed, every call of getInstance,
\* the first and any later one, reads config.yaml again and throws an Error
\* whose message begins with 'Failed to load config.yaml'; no loader is
\* stored or returned, and no stack, schema, output file or plugin comes of
\* the run. A run whose config.yaml loads throws no such Error.
C22_LoadFailure ==
    /\ (configFault # "" /\ pc \notin {"idle", "getInstance"}) =>
          /\ pc = "failed"
          /\ error \in LoadErrors
          /\ error = "Failed to load config.yaml: " \o configFault
          /\ ~instance.set
          /\ instance = NoInstance
          /\ returned = {}
          /\ Count("getInstance") = 0
          /\ Count("getInstanceThrew") >= 1
          /\ Count("readConfig") = Count("getInstanceThrew")
          /\ ~agentStack.built
          /\ ~pluginStack.built
          /\ schema = Undefined
          /\ outFile = outBefore
          /\ ~plugin.created
    /\ configFault = "" => Count("getInstanceThrew") = 0 /\ error \notin LoadErrors

\* C22 witness: with config.yaml missing, a second call of getInstance has
\* read the file again and thrown again.
C22_Witness ==
    /\ configFault = "ENOENT"
    /\ pc = "failed"
    /\ Count("getInstanceThrew") = MaxCalls
    /\ Count("readConfig") = MaxCalls
    /\ ~instance.set

=============================================================================
